---- MODULE Spec2Model ----
(***************************************************************************)
(* Per-tenant SQLite registry, contact store and lead scoring of the CRM   *)
(* backend (backend/database.py, backend/main.py, backend/utils.py).       *)
(*                                                                         *)
(* Five specifications share the variables:                                *)
(*   Spec      the registry and the request handlers of one tenant, one    *)
(*             call at a time                                              *)
(*   SpecIso   two tenants side by side, one call at a time                *)
(*   SpecConc  two request threads of one tenant, statement by statement   *)
(*   SpecScore calculate_lead_score applied to attribute mappings          *)
(*   SpecPipeline calculate_pipeline_metrics applied to lists of deals     *)
(***************************************************************************)
EXTENDS Integers, Sequences, FiniteSets, TLC

\* ------------------------------------------------------------------ bounds
\* engines and sessions created in one behaviour
MaxHandles == 4
\* rows held by all files together, backups included, and the largest primary
\* key handed out (creates are refused beyond either)
MaxRows == 2
\* deals in the list handed to calculate_pipeline_metrics
MaxDeals == 2

\* ------------------------------------------------------------ Python values
\* A Python value: None, a str (a sequence of words) or an int.
None == [t |-> "none"]

StrVal(s) == [t |-> "str", s |-> s]

IntVal(n) == [t |-> "int", n |-> n]

\* bool(v): None, '' and 0 are falsy.
Truthy(v) ==
    CASE v.t = "str" -> v.s # <<>>
      [] v.t = "int" -> v.n # 0
      [] OTHER -> FALSE

\* dict.get(key, default): the default only when the key is absent; a key
\* present with the value None yields None.
Get(d, key, default) == IF key \in DOMAIN d THEN d[key] ELSE default

\* str.lower() of one word.
LowerWord(w) ==
    CASE w = "CEO" -> "ceo"
      [] w = "Founder" -> "founder"
      [] w = "Referral" -> "referral"
      [] w = "Gmail" -> "gmail"
      [] OTHER -> w

\* str.lower(): word by word.
Lower(s) == [i \in DOMAIN s |-> LowerWord(s[i])]

\* The pairs <<word, term>> where the term is a proper substring of the word.
Embedded == {<<"ahead", "head">>, <<"gmailer", "gmail">>, <<"coowner", "owner">>}

\* term in s  (Python substring test; the terms looked for hold no separator,
\* so a match lies inside one word).
Contains(s, term) ==
    \E i \in DOMAIN s : s[i] = term \/ <<s[i], term>> \in Embedded

\* ------------------------------------------------------------ lead scoring
ExecutiveTerms == {"ceo", "cto", "cfo", "vp", "director", "head"}

FounderTerms == {"president", "founder", "owner"}

FreeMailTerms == {"gmail", "yahoo", "hotmail", "outlook"}

AddressFields == {"street", "city", "state", "country"}

Min(a, b) == IF a < b THEN a ELSE b

\* The result of a call: a returned int, or a raised exception.
Returned(n) == [ok |-> TRUE, val |-> n]

Raised == [ok |-> FALSE, val |-> 0]

\* No call made yet.
NotCalled == [ok |-> FALSE, val |-> -1]

TitlePoints(d) ==
    IF Truthy(Get(d, "title", None))
    THEN LET title_lower == Lower(d["title"].s)
         IN 10
            + (IF \E term \in ExecutiveTerms : Contains(title_lower, term)
               THEN 10 ELSE 0)
            + (IF \E term \in FounderTerms : Contains(title_lower, term)
               THEN 15 ELSE 0)
    ELSE 0

SourcePoints(source) ==
    IF source \in {<<"referral">>, <<"partner">>} THEN 15
    ELSE IF source \in {<<"web">>, <<"campaign">>, <<"event">>} THEN 5
    ELSE 0

EmailPoints(d) ==
    LET email == Get(d, "email", StrVal(<<>>))
    IN IF Truthy(email)
          /\ ~ \E dom \in FreeMailTerms : Contains(Lower(email.s), dom)
       THEN 10 ELSE 0

\* calculate_lead_score(contact_data).  contact_data.get('lead_source', '')
\* is lowered unconditionally: a value that is no str raises AttributeError.
calculate_lead_score(d) ==
    LET src == Get(d, "lead_source", StrVal(<<>>))
        score ==
            (IF Truthy(Get(d, "company_id", None)) THEN 20 ELSE 0)
            + TitlePoints(d)
            + (IF Truthy(Get(d, "phone", None)) THEN 10 ELSE 0)
            + (IF Truthy(Get(d, "mobile", None)) THEN 5 ELSE 0)
            + (IF Truthy(Get(d, "linkedin_url", None)) THEN 15 ELSE 0)
            + (IF Truthy(Get(d, "twitter_handle", None)) THEN 5 ELSE 0)
            + (IF \A f \in AddressFields : Truthy(Get(d, f, None))
               THEN 10 ELSE 0)
            + (IF src.t = "str" THEN SourcePoints(Lower(src.s)) ELSE 0)
            + EmailPoints(d)
    IN IF src.t # "str" THEN Raised ELSE Returned(Min(score, 100))

\* ------------------------------------------------------------ identifiers
\* The X-User-ID values requests carry: two UUIDs and one malformed text.
UserIds == {"u1", "u2", "bad"}

\* What uuid.UUID sees of a user id once 'urn:', 'uuid:', braces and hyphens
\* are stripped: the number of hex digits and of other characters left.
IdShape(u) ==
    CASE u = "bad" -> [hex |-> 31, other |-> 1]
      [] OTHER -> [hex |-> 32, other |-> 0]

\* validate_user_id: uuid.UUID(user_id, version=4) accepts exactly 32 hex digits.
validate_user_id(u) == IdShape(u).hex = 32 /\ IdShape(u).other = 0

\* The tenants: the ids validation accepts.
Tenants == {u \in UserIds : validate_user_id(u)}

\* get_db_path with the user id left out of the file name.
get_db_path_shared(u) == <<"user_databases", "crm_", "", ".db">>

\* get_db_path: DB_DIR/crm_<user_id>.db
get_db_path(u) == <<"user_databases", "crm_", u, ".db">>

StorePaths == {get_db_path(u) : u \in UserIds}

\* Destinations of backups: files outside DB_DIR.
BackupPaths == {<<"backups", "b1">>}

Paths == StorePaths \cup BackupPaths

\* ------------------------------------------------------------------ files
Tables == {"contacts", "companies", "deals", "activities", "notes"}

\* No file at a path.
NoFile == [exists |-> FALSE, schema |-> FALSE, rows |-> [tb \in Tables |-> {}]]

\* A database file holding the five empty tables.
EmptyDb == [exists |-> TRUE, schema |-> TRUE, rows |-> [tb \in Tables |-> {}]]

\* os.path.exists
Exists(st, path) == st.fs[path].exists

\* ---------------------------------------------------------------- handles
NoEngine == [id |-> 0, path |-> <<>>]

NoSession == [id |-> 0, engine |-> NoEngine]

\* create_engine(f"sqlite:///{db_path}", ...): a new engine object; the file
\* is not touched until the engine connects.
create_engine(st, path) ==
    [st |-> [st EXCEPT !.next = @ + 1], val |-> [id |-> st.next, path |-> path]]

\* Base.metadata.create_all(bind=engine): connecting creates the file when it
\* is missing; tables that are missing are created, rows are left alone.
create_all(st, engine) ==
    [st EXCEPT !.fs[engine.path] =
        IF @.exists THEN [@ EXCEPT !.schema = TRUE] ELSE EmptyDb]

\* init_user_db
init_user_db(st, u) ==
    LET db_path == get_db_path(u)
        e == create_engine(st, db_path)
        st1 == create_all(e.st, e.val)
    IN [st |-> [st1 EXCEPT !.engines[u] = e.val], val |-> db_path]

\* get_engine: the engine made for a tenant without a file is returned
\* without being cached.
get_engine(st, u) ==
    IF st.engines[u] # NoEngine THEN [st |-> st, val |-> st.engines[u]]
    ELSE LET e == create_engine(st, get_db_path(u))
         IN IF ~Exists(st, get_db_path(u)) THEN e
            ELSE [st |-> [e.st EXCEPT !.engines[u] = e.val], val |-> e.val]

\* get_session without the look-up in _sessions.
get_session_uncached(st, u) ==
    LET e == get_engine(st, u)
        st1 == create_all(e.st, e.val)
        session == [id |-> st1.next, engine |-> e.val]
    IN [st |-> [st1 EXCEPT !.next = @ + 1, !.sessions[u] = session],
        val |-> session]

\* get_session
get_session(st, u) ==
    IF st.sessions[u] # NoSession THEN [st |-> st, val |-> st.sessions[u]]
    ELSE LET e == get_engine(st, u)
             st1 == create_all(e.st, e.val)
             session == [id |-> st1.next, engine |-> e.val]
         IN [st |-> [st1 EXCEPT !.next = @ + 1, !.sessions[u] = session],
             val |-> session]

\* get_db that resolves the store without validating the user id.
get_db_unvalidated(st, u) ==
    LET st1 == IF ~Exists(st, get_db_path(u))
               THEN init_user_db(st, u).st ELSE st
        s == get_session(st1, u)
    IN [st |-> s.st, val |-> s.val, status |-> 200]

\* get_db up to the yield: status 400 for an id validation rejects.
get_db(st, u) ==
    IF ~validate_user_id(u) THEN [st |-> st, val |-> NoSession, status |-> 400]
    ELSE LET st1 == IF ~Exists(st, get_db_path(u))
                    THEN init_user_db(st, u).st ELSE st
             s == get_session(st1, u)
         IN [st |-> s.st, val |-> s.val, status |-> 200]

\* The eviction delete_user_db and restore_user_db share: close and forget the
\* cached session, dispose and forget the cached engine.
Evict(st, u) ==
    [st EXCEPT
        !.released = @ \cup ({st.sessions[u].id, st.engines[u].id} \ {0}),
        !.sessions[u] = NoSession,
        !.engines[u] = NoEngine]

\* delete_user_db that leaves the cached session in place.
delete_user_db_keeps_session(st, u) ==
    LET st1 == [st EXCEPT !.released = @ \cup ({st.engines[u].id} \ {0}),
                          !.engines[u] = NoEngine]
        db_path == get_db_path(u)
    IN IF Exists(st1, db_path)
       THEN [st |-> [st1 EXCEPT !.fs[db_path] = NoFile], val |-> TRUE]
       ELSE [st |-> st1, val |-> FALSE]

\* delete_user_db that returns whether a session was cached.
delete_user_db_cache_flag(st, u) ==
    LET st1 == Evict(st, u)
        db_path == get_db_path(u)
    IN [st |-> [st1 EXCEPT !.fs[db_path] = NoFile],
        val |-> st.sessions[u] # NoSession]

\* delete_user_db
delete_user_db(st, u) ==
    LET st1 == Evict(st, u)
        db_path == get_db_path(u)
    IN IF Exists(st1, db_path)
       THEN [st |-> [st1 EXCEPT !.fs[db_path] = NoFile], val |-> TRUE]
       ELSE [st |-> st1, val |-> FALSE]

\* backup_user_db with the arguments of the copy exchanged.
backup_user_db_swapped(st, u, backup_path) ==
    LET db_path == get_db_path(u)
    IN IF ~Exists(st, db_path) THEN [st |-> st, ok |-> FALSE]
       ELSE IF ~Exists(st, backup_path) THEN [st |-> st, ok |-> TRUE]
       ELSE [st |-> [st EXCEPT !.fs[db_path] = st.fs[backup_path]], ok |-> TRUE]

\* backup_user_db: FileNotFoundError without a store file, else a copy of it.
backup_user_db(st, u, backup_path) ==
    LET db_path == get_db_path(u)
    IN IF ~Exists(st, db_path) THEN [st |-> st, ok |-> FALSE]
       ELSE [st |-> [st EXCEPT !.fs[backup_path] = st.fs[db_path]], ok |-> TRUE]

\* restore_user_db that copies without closing the cached connections.
restore_user_db_no_evict(st, u, backup_path) ==
    IF ~Exists(st, backup_path) THEN [st |-> st, ok |-> FALSE]
    ELSE [st |-> [st EXCEPT !.fs[get_db_path(u)] = st.fs[backup_path]],
          ok |-> TRUE]

\* restore_user_db: FileNotFoundError without the backup, else evict and copy.
restore_user_db(st, u, backup_path) ==
    IF ~Exists(st, backup_path) THEN [st |-> st, ok |-> FALSE]
    ELSE LET st1 == Evict(st, u)
         IN [st |-> [st1 EXCEPT !.fs[get_db_path(u)] = st1.fs[backup_path]],
             ok |-> TRUE]

\* close_all
close_all(st) ==
    [st EXCEPT
        !.released = @ \cup (({st.sessions[u].id : u \in UserIds}
                              \cup {st.engines[u].id : u \in UserIds}) \ {0}),
        !.sessions = [u \in UserIds |-> NoSession],
        !.engines = [u \in UserIds |-> NoEngine]]

\* ------------------------------------------------------------------ rows
\* A row is [id, d]: the integer primary key and the other columns.
Ids(rows) == {r.id : r \in rows}

\* The key SQLite gives a new row of a table whose key is declared
\* Column(Integer, primary_key=True): one more than the largest key in use.
NextId(rows) ==
    IF rows = {} THEN 1
    ELSE (CHOOSE m \in Ids(rows) : \A k \in Ids(rows) : k <= m) + 1

\* query(Model).filter(Model.id == id).first()
ById(rows, id) == {r \in rows : r.id = id}

\* query(Contact).filter(Contact.email == email).first()
ByEmail(rows, email) == {r \in rows : r.d.email = email}

\* The rows a session reads: those of the file its engine is bound to.
Read(st, session, tb) == st.fs[session.engine.path].rows[tb]

\* INSERT of one row followed by COMMIT through a session.
Insert(st, session, tb, d) ==
    [st EXCEPT !.fs[session.engine.path].rows[tb] =
        @ \cup {[id |-> NextId(@), d |-> d]}]

\* DELETE of the row with a key followed by COMMIT.
Delete(st, session, tb, id) ==
    [st EXCEPT !.fs[session.engine.path].rows[tb] = @ \ ById(@, id)]

\* UPDATE of every column of the row with a key followed by COMMIT.
Update(st, session, tb, id, d) ==
    [st EXCEPT !.fs[session.engine.path].rows[tb] =
        (@ \ ById(@, id)) \cup {[id |-> id, d |-> d]}]

\* -------------------------------------------------------------- handlers
\* The outcome of a handler: the state it leaves and how the request ended.
Outcome(st, status, session) == [st |-> st, status |-> status, val |-> session]

\* The contacts rows of a tenant's store in a state.
Contacts(st, u) == st.fs[get_db_path(u)].rows["contacts"]

\* The columns of the contacts and of the deals table: the attributes an ORM
\* object carries.
ContactColumns ==
    {"id", "first_name", "last_name", "email", "phone", "mobile", "title",
     "department", "company_id", "linkedin_url", "twitter_handle", "street",
     "city", "state", "country", "postal_code", "status", "lead_source",
     "lead_score", "tags", "notes", "created_at", "updated_at"}

DealColumns ==
    {"id", "title", "value", "stage", "status", "probability",
     "expected_close_date", "actual_close_date", "contact_id", "company_id",
     "description", "created_at", "updated_at"}

\* The fields of ContactResponse and of DealResponse that have no default.
ContactResponseRequired ==
    {"first_name", "last_name", "email", "id", "full_name", "created_at",
     "updated_at"}

DealResponseRequired == {"title", "value", "id", "created_at", "updated_at"}

\* Model.from_orm(obj): the model is validated from the attributes of the
\* object; a field without default that the object does not carry fails the
\* validation.  TRUE when the model is built.
from_orm(required, columns) == required \subseteq columns

\* The answer of a read: its status and the names it resolved.
Answer(status, company_name) == [status |-> status, company_name |-> company_name]

\* The name of the company a reference resolves to: None for no reference and
\* for a reference to no row.
CompanyName(st, session, company_id) ==
    IF ~Truthy(company_id) THEN None
    ELSE LET company == ById(Read(st, session, "companies"), company_id.n)
         IN IF company = {} THEN None
            ELSE (CHOOSE c \in company : TRUE).d.name

\* get_contact: 404 without the row; ContactResponse.from_orm(contact) before
\* full_name and company_name are filled in.
get_contact(st, session, contact_id) ==
    LET contact == ById(Read(st, session, "contacts"), contact_id)
    IN IF contact = {} THEN Answer("not_found", None)
       ELSE IF ~from_orm(ContactResponseRequired, ContactColumns)
       THEN Answer("error", None)
       ELSE Answer("ok", CompanyName(st, session,
                                     (CHOOSE c \in contact : TRUE).d.company_id))

\* get_contact_with_company: the columns of the row, full_name and the company
\* name in a plain dict; None without the row.
get_contact_with_company(st, session, contact_id) ==
    LET contact == ById(Read(st, session, "contacts"), contact_id)
    IN IF contact = {} THEN Answer("not_found", None)
       ELSE Answer("ok", CompanyName(st, session,
                                     (CHOOSE c \in contact : TRUE).d.company_id))

\* The response of list_contacts without filters: ContactResponse.from_orm of
\* every row, then its company name.
list_contacts(st, session) ==
    LET contacts == Read(st, session, "contacts")
    IN IF contacts # {} /\ ~from_orm(ContactResponseRequired, ContactColumns)
       THEN [status |-> "error", items |-> {}]
       ELSE [status |-> "ok",
             items |-> {[id |-> c.id,
                         company_name |-> CompanyName(st, session, c.d.company_id)]
                        : c \in contacts}]

\* f"{contact.first_name} {contact.last_name}" of the contact a deal refers
\* to: the name of that row, None for no reference and for a reference to no
\* row.
ContactName(st, session, contact_id) ==
    IF ~Truthy(contact_id) THEN None
    ELSE IF ById(Read(st, session, "contacts"), contact_id.n) = {} THEN None
    ELSE [t |-> "full_name", of |-> contact_id.n]

\* The response of list_deals without filters.  weighted_value in hundredths:
\* deal.value * (deal.probability / 100).
list_deals(st, session) ==
    LET deals == Read(st, session, "deals")
    IN IF deals # {} /\ ~from_orm(DealResponseRequired, DealColumns)
       THEN [status |-> "error", items |-> {}]
       ELSE [status |-> "ok",
             items |-> {[id |-> d.id,
                         weighted_value |-> d.d.value * d.d.probability,
                         contact_name |-> ContactName(st, session, d.d.contact_id),
                         company_name |-> CompanyName(st, session, d.d.company_id)]
                        : d \in deals}]

\* The response of create_deal for a deal it stores in st:
\* DealResponse.from_orm(db_deal) as it is, so weighted_value, contact_name and
\* company_name keep the defaults of DealResponse.
create_deal(st, session, deal) ==
    IF ~from_orm(DealResponseRequired, DealColumns)
    THEN [status |-> "error", items |-> {}]
    ELSE [status |-> "created",
          items |-> {[id |-> NextId(Read(st, session, "deals")),
                      weighted_value |-> 0,
                      contact_name |-> None,
                      company_name |-> None]}]

\* The rows of a table whose company_id is the id of a company.
OfCompany(st, session, tb, company_id) ==
    {r \in Read(st, session, tb) : r.d.company_id = IntVal(company_id)}

\* sum(d.value for d in deals)
RECURSIVE SumValue(_)
SumValue(rows) ==
    IF rows = {} THEN 0
    ELSE LET r == CHOOSE x \in rows : TRUE
         IN r.d.value + SumValue(rows \ {r})

\* The response of list_companies without filters: every company with its
\* counts and the value of its won deals.
list_companies(st, session) ==
    LET companies == Read(st, session, "companies")
    IN {[id |-> company.id,
         contact_count |->
             Cardinality(OfCompany(st, session, "contacts", company.id)),
         deal_count |-> Cardinality(OfCompany(st, session, "deals", company.id)),
         total_revenue |->
             SumValue({d \in OfCompany(st, session, "deals", company.id) :
                          d.d.status = "won"})]
        : company \in companies}

\* The response of get_company: CompanyResponse.from_orm(company) as it is, so
\* contact_count, deal_count and total_revenue keep the defaults of
\* CompanyResponse.  The empty set for 404.
get_company(st, session, company_id) ==
    {[id |-> company.id, contact_count |-> 0, deal_count |-> 0,
      total_revenue |-> 0]
     : company \in ById(Read(st, session, "companies"), company_id)}

\* get_company_with_counts: the columns and the two counts; the dict has no
\* total_revenue key.  The empty set for None.
get_company_with_counts(st, session, company_id) ==
    {[id |-> company.id,
      contact_count |->
          Cardinality(OfCompany(st, session, "contacts", company.id)),
      deal_count |-> Cardinality(OfCompany(st, session, "deals", company.id))]
     : company \in ById(Read(st, session, "companies"), company_id)}

\* return get_contact(...) at the end of create_contact and update_contact:
\* the status the handler would end with, unless the read fails.
Returning(st, session, contact_id, status) ==
    IF get_contact(st, session, contact_id).status = "ok" THEN status ELSE "error"

\* create_contact that takes the calculated score whatever the request says.
create_contact_always_scores(st, u, contact) ==
    LET db == get_db(st, u)
        score == calculate_lead_score(contact)
    IN IF db.status = 400 THEN Outcome(st, "invalid_user_id", NoSession)
       ELSE IF ByEmail(Read(db.st, db.val, "contacts"), contact.email) # {}
       THEN Outcome(db.st, "email_exists", db.val)
       ELSE IF ~score.ok THEN Outcome(db.st, "error", db.val)
       ELSE LET st1 == Insert(db.st, db.val, "contacts",
                              [contact EXCEPT !.lead_score = IntVal(score.val)])
            IN Outcome(st1,
                       Returning(st1, db.val,
                                 NextId(Read(db.st, db.val, "contacts")), "created"),
                       db.val)

\* create_contact, with its get_db dependency
create_contact(st, u, contact) ==
    LET db == get_db(st, u)
        score == calculate_lead_score(contact)
        stored == IF contact.lead_score.n = 0
                  THEN [contact EXCEPT !.lead_score = IntVal(score.val)]
                  ELSE contact
    IN IF db.status = 400 THEN Outcome(st, "invalid_user_id", NoSession)
       ELSE IF ByEmail(Read(db.st, db.val, "contacts"), contact.email) # {}
       THEN Outcome(db.st, "email_exists", db.val)
       ELSE IF contact.lead_score.n = 0 /\ ~score.ok
       THEN Outcome(db.st, "error", db.val)
       ELSE LET st1 == Insert(db.st, db.val, "contacts", stored)
            IN Outcome(st1,
                       Returning(st1, db.val,
                                 NextId(Read(db.st, db.val, "contacts")), "created"),
                       db.val)

\* update_contact
update_contact(st, u, contact_id, contact) ==
    LET db == get_db(st, u)
        rows == Read(db.st, db.val, "contacts")
        db_contact == ById(rows, contact_id)
    IN IF db.status = 400 THEN Outcome(st, "invalid_user_id", NoSession)
       ELSE IF db_contact = {} THEN Outcome(db.st, "not_found", db.val)
       ELSE IF /\ \A r \in db_contact : contact.email # r.d.email
               /\ ByEmail(rows, contact.email) # {}
       THEN Outcome(db.st, "email_exists", db.val)
       ELSE LET st1 == Update(db.st, db.val, "contacts", contact_id, contact)
            IN Outcome(st1, Returning(st1, db.val, contact_id, "ok"), db.val)

\* delete_row whose delete of a company also clears the company_id of the
\* contacts and deals that refer to it (ON DELETE SET NULL).
delete_row_set_null(st, u, tb, id) ==
    LET db == get_db(st, u)
        Cleared(rows) ==
            {IF r.d.company_id = IntVal(id)
             THEN [r EXCEPT !.d.company_id = None] ELSE r : r \in rows}
    IN IF db.status = 400 THEN Outcome(st, "invalid_user_id", NoSession)
       ELSE IF ById(Read(db.st, db.val, tb), id) = {}
       THEN Outcome(db.st, "not_found", db.val)
       ELSE LET st1 == Delete(db.st, db.val, tb, id)
            IN Outcome(IF tb # "companies" THEN st1
                       ELSE [st1 EXCEPT !.fs[db.val.engine.path].rows =
                               [@ EXCEPT !["contacts"] = Cleared(@),
                                         !["deals"] = Cleared(@)]],
                       "ok", db.val)

\* delete_contact, delete_company, delete_deal: the same code on three tables
delete_row(st, u, tb, id) ==
    LET db == get_db(st, u)
    IN IF db.status = 400 THEN Outcome(st, "invalid_user_id", NoSession)
       ELSE IF ById(Read(db.st, db.val, tb), id) = {}
       THEN Outcome(db.st, "not_found", db.val)
       ELSE Outcome(Delete(db.st, db.val, tb, id), "ok", db.val)

\* create_company, create_deal, create_activity: the same code on three tables
create_row(st, u, tb, d) ==
    LET db == get_db(st, u)
    IN IF db.status = 400 THEN Outcome(st, "invalid_user_id", NoSession)
       ELSE Outcome(Insert(db.st, db.val, tb, d), "created", db.val)

\* get_db_info: 404 without the file, else the counts read through the cached
\* session.
get_db_info(st, u) ==
    IF ~Exists(st, get_db_path(u)) THEN Outcome(st, "not_found", NoSession)
    ELSE LET s == get_session(st, u)
         IN Outcome(s.st, "ok", s.val)

\* get_database_info
get_database_info(st, u) ==
    IF ~validate_user_id(u) THEN Outcome(st, "invalid_user_id", NoSession)
    ELSE get_db_info(st, u)

\* upload_database: the uploaded bytes are written over the store file; the
\* registry is not touched.
upload_database(st, u, file) ==
    IF ~validate_user_id(u) THEN Outcome(st, "invalid_user_id", NoSession)
    ELSE IF ~file.db_suffix THEN Outcome(st, "not_a_db_file", NoSession)
    ELSE Outcome([st EXCEPT !.fs[get_db_path(u)] = file.content], "ok", NoSession)

\* What a handler that only reads leaves behind: the store get_db resolved.
read_only(st, u) ==
    LET db == get_db(st, u)
    IN IF db.status = 400 THEN Outcome(st, "invalid_user_id", NoSession)
       ELSE Outcome(db.st, "ok", db.val)

\* ---------------------------------------------------------------- inputs
\* ContactSchema.dict() of a request that sets the email alone: every other
\* key is present with its default, None (lead_score: 0).
BlankContact(email) ==
    [email |-> email, phone |-> None, mobile |-> None, title |-> None,
     company_id |-> None, linkedin_url |-> None, twitter_handle |-> None,
     street |-> None, city |-> None, state |-> None, country |-> None,
     lead_source |-> None, lead_score |-> IntVal(0)]

Ann == StrVal(<<"ann", "@", "corp", "com">>)

Bob == StrVal(<<"bob", "@", "gmail", "com">>)

\* A corporate address whose local part names a free-mail provider.
Gil == StrVal(<<"gmail", "@", "corp", "com">>)

\* Three requests: no lead source and no score; a lead source and no score;
\* an explicit score and a reference to the company with id 1.
ContactInputs ==
    {BlankContact(Ann),
     [BlankContact(Ann) EXCEPT !.lead_source = StrVal(<<"web">>)],
     [BlankContact(Bob) EXCEPT !.lead_score = IntVal(70),
                               !.company_id = IntVal(1)]}

CompanyInputs == {[name |-> StrVal(<<"Acme">>)]}

\* An open and a won deal, both referring to the contact and the company with
\* id 1.
DealInputs ==
    {[value |-> 100, status |-> st, probability |-> 50,
      contact_id |-> IntVal(1), company_id |-> IntVal(1)] : st \in {"open", "won"}}

\* Uploads: an empty database under a .db name and under another name.
UploadInputs == {[db_suffix |-> b, content |-> EmptyDb] : b \in BOOLEAN}

ActivityInputs == {[activity_type |-> "call", contact_id |-> None]}

\* The primary keys requests name.
RowIds == 1 .. MaxRows

\* ------------------------------------------------------------------ state
VARIABLES
    fs,          \* path -> file: the store files and the backups
    _engines,    \* database.py _engines: user id -> cached engine
    _sessions,   \* database.py _sessions: user id -> cached session
    nextHandle,  \* identity of the next engine or session object created
    released,    \* ids of the sessions closed and the engines disposed
    snap,        \* backup path -> the tenant and the rows of its store when
                 \* backup_user_db last wrote the path (history)
    contact_data,  \* SpecScore: the mapping calculate_lead_score is given
    result,         \* SpecScore: what the call on contact_data gave
    resultBefore,   \* SpecScore: what the call gave before the last signal
                   \* was added to contact_data
    req,           \* SpecConc: request thread -> its locals and its position
    pending,       \* SpecConc: session id -> the session's unflushed changes
    deals,         \* SpecPipeline: the list calculate_pipeline_metrics is given
    metrics        \* SpecPipeline: what the call on deals gave

regVars == <<fs, _engines, _sessions, nextHandle, released, snap>>

scoreVars == <<contact_data, result, resultBefore>>

concVars == <<req, pending>>

pipeVars == <<deals, metrics>>

vars == <<fs, _engines, _sessions, nextHandle, released, snap,
          contact_data, result, resultBefore, req, pending, deals, metrics>>

\* The registry and the files as one value, and back.
St ==
    [fs |-> fs, engines |-> _engines, sessions |-> _sessions,
     next |-> nextHandle, released |-> released]

Assign(st) ==
    /\ st.next <= MaxHandles + 1
    /\ fs' = st.fs
    /\ _engines' = st.engines
    /\ _sessions' = st.sessions
    /\ nextHandle' = st.next
    /\ released' = st.released

\* A call other than a successful backup: the history is left alone.
Set(st) ==
    /\ Assign(st)
    /\ UNCHANGED <<snap, scoreVars, concVars, pipeVars>>

\* The rows of all files together.
TotalRows ==
    Cardinality(UNION {{<<p, tb, r.id>> : r \in fs[p].rows[tb]} :
                       <<p, tb>> \in Paths \X Tables})

\* A create may run: the row budget and the key range are not exhausted.
Room(u, tb) ==
    /\ TotalRows < MaxRows
    /\ NextId(fs[get_db_path(u)].rows[tb]) \in RowIds

RegInit ==
    /\ fs = [p \in Paths |-> NoFile]
    /\ _engines = [u \in UserIds |-> NoEngine]
    /\ _sessions = [u \in UserIds |-> NoSession]
    /\ nextHandle = 1
    /\ released = {}
    /\ snap = [p \in BackupPaths |-> [u |-> "none", rows |-> NoFile.rows]]

\* ------------------------------------------------- actions: registry calls
GetSession(u) == Set(get_session(St, u).st)

DeleteUserDb(u) == Set(delete_user_db(St, u).st)

BackupUserDb(u, p) ==
    LET r == backup_user_db(St, u, p)
    IN /\ Assign(r.st)
       /\ snap' = IF r.ok
                  THEN [snap EXCEPT ![p] = [u |-> u, rows |-> fs[get_db_path(u)].rows]]
                  ELSE snap
       /\ UNCHANGED scoreVars
       /\ UNCHANGED concVars
       /\ UNCHANGED pipeVars

RestoreUserDb(u, p) == Set(restore_user_db(St, u, p).st)

CloseAll == Set(close_all(St))

\* ---------------------------------------------------- actions: requests
ListContacts(u) == Set(read_only(St, u).st)

GetDatabaseInfo(u) == Set(get_database_info(St, u).st)

UploadDatabase(u, file) == Set(upload_database(St, u, file).st)

CreateContact(u, c) == Room(u, "contacts") /\ Set(create_contact(St, u, c).st)

UpdateContact(u, id, c) == Set(update_contact(St, u, id, c).st)

DeleteContact(u, id) == Set(delete_row(St, u, "contacts", id).st)

CreateCompany(u, d) == Room(u, "companies") /\ Set(create_row(St, u, "companies", d).st)

DeleteCompany(u, id) == Set(delete_row(St, u, "companies", id).st)

CreateDeal(u, d) == Room(u, "deals") /\ Set(create_row(St, u, "deals", d).st)

DeleteDeal(u, id) == Set(delete_row(St, u, "deals", id).st)

CreateActivity(u, d) == Room(u, "activities") /\ Set(create_row(St, u, "activities", d).st)

\* No scoring call under way.
ScoreIdle ==
    /\ contact_data = [email |-> None]
    /\ result = NotCalled
    /\ resultBefore = NotCalled

\* The request threads and the units of work of the sessions.
Requests == {"r1", "r2"}

HandleIds == 1 .. MaxHandles

\* A thread between two requests.
Idle ==
    [pc |-> "done", op |-> "none", contact |-> None, contact_id |-> 0,
     engine |-> NoEngine, db |-> NoSession, db_contact |-> 0,
     status |-> "none", dup |-> FALSE]

\* A session with nothing to flush, in a transaction that has not failed.
NoWork == [new |-> <<>>, dirty |-> {}, deleted |-> {}, active |-> TRUE]

ConcIdle ==
    /\ req = [r \in Requests |-> Idle]
    /\ pending = [h \in HandleIds |-> NoWork]

\* The answer of calculate_pipeline_metrics: the five aggregates, or the
\* exception raised.  weighted_value is kept in hundredths (value times
\* probability), so that it stays an integer.
Metrics(total_value, weighted_value, open_count, total_revenue, won_count) ==
    [ok |-> TRUE, total_value |-> total_value, weighted_value |-> weighted_value,
     open_count |-> open_count, total_revenue |-> total_revenue,
     won_count |-> won_count]

MetricsRaised ==
    [ok |-> FALSE, total_value |-> 0, weighted_value |-> 0, open_count |-> 0,
     total_revenue |-> 0, won_count |-> 0]

NotMeasured ==
    [ok |-> FALSE, total_value |-> -1, weighted_value |-> -1, open_count |-> -1,
     total_revenue |-> -1, won_count |-> -1]

\* No aggregation under way.
PipeIdle ==
    /\ deals = <<>>
    /\ metrics = NotMeasured

Init == RegInit /\ ScoreIdle /\ ConcIdle /\ PipeIdle

\* The ids the calls of Spec are made for: one tenant and the malformed id.
SpecUsers == {"u1", "bad"}

SpecTenants == SpecUsers \cap Tenants

Next ==
    \/ \E u \in SpecTenants : GetSession(u)
    \/ \E u \in SpecTenants : DeleteUserDb(u)
    \/ \E u \in SpecTenants, p \in BackupPaths : BackupUserDb(u, p)
    \/ \E u \in SpecTenants, p \in BackupPaths : RestoreUserDb(u, p)
    \/ CloseAll
    \/ \E u \in SpecUsers : ListContacts(u)
    \/ \E u \in SpecUsers : GetDatabaseInfo(u)
    \/ \E u \in SpecUsers, file \in UploadInputs : UploadDatabase(u, file)
    \/ \E u \in SpecUsers, c \in ContactInputs : CreateContact(u, c)
    \/ \E u \in SpecUsers, id \in RowIds, c \in ContactInputs : UpdateContact(u, id, c)
    \/ \E u \in SpecUsers, id \in RowIds : DeleteContact(u, id)
    \/ \E u \in SpecUsers, d \in CompanyInputs : CreateCompany(u, d)
    \/ \E u \in SpecUsers, id \in RowIds : DeleteCompany(u, id)
    \/ \E u \in SpecUsers, d \in DealInputs : CreateDeal(u, d)
    \/ \E u \in SpecUsers, id \in RowIds : DeleteDeal(u, id)
    \/ \E u \in SpecUsers, d \in ActivityInputs : CreateActivity(u, d)

Spec == Init /\ [][Next]_vars

\* Two tenants side by side: the calls the isolation of tenants is about.
\* The contact requests of the two tenants.
IsoInputs == ContactInputs \ {BlankContact(Ann)}

NextIso ==
    \/ \E u \in Tenants : DeleteUserDb(u)
    \/ \E u \in Tenants, p \in BackupPaths : BackupUserDb(u, p)
    \/ \E u \in Tenants, p \in BackupPaths : RestoreUserDb(u, p)
    \/ \E u \in Tenants : ListContacts(u)
    \/ \E u \in Tenants, c \in IsoInputs : CreateContact(u, c)
    \/ \E u \in Tenants, id \in RowIds, c \in IsoInputs : UpdateContact(u, id, c)
    \/ \E u \in Tenants, id \in RowIds : DeleteContact(u, id)
    \/ \E u \in Tenants, d \in CompanyInputs : CreateCompany(u, d)
    \/ \E u \in Tenants, id \in RowIds : DeleteCompany(u, id)

SpecIso == Init /\ [][NextIso]_vars

\* ------------------------------------------------- SpecScore: lead scoring
\* The mappings scoring starts from.  lead_source and email are absent, None
\* (as ContactSchema.dict() gives them when unset) or set; street may be set
\* while the rest of the address is not.
ScoreInputs ==
    {[k \in {"company_id", "title", "phone", "mobile", "linkedin_url",
             "twitter_handle", "street", "city", "state", "country"}
         |-> IF k = "street" THEN street ELSE None]
       @@ src @@ em :
       street \in {None, StrVal(<<"Main", "St">>)},
       src \in {<<>>, [lead_source |-> None], [lead_source |-> StrVal(<<"cold", "call">>)]},
       em \in {<<>>, [email |-> None], [email |-> Bob], [email |-> Gil]}}

\* d[key] = v, the key added when it is absent.
Put(d, key, v) == [k \in DOMAIN d \cup {key} |-> IF k = key THEN v ELSE d[k]]

\* A signal is added to the mapping and the result is taken again.
Rescore(d) ==
    /\ result # NotCalled
    /\ contact_data' = d
    /\ resultBefore' = result
    /\ result' = calculate_lead_score(d)
    /\ UNCHANGED regVars
    /\ UNCHANGED concVars
    /\ UNCHANGED pipeVars

\* The first call on the mapping.
Score ==
    /\ result = NotCalled
    /\ result' = calculate_lead_score(contact_data)
    /\ UNCHANGED <<contact_data, resultBefore>>
    /\ UNCHANGED regVars
    /\ UNCHANGED concVars
    /\ UNCHANGED pipeVars

\* A falsy field becomes a value.
AddField(key, v) ==
    /\ ~Truthy(Get(contact_data, key, None))
    /\ Rescore(Put(contact_data, key, v))

AddCompany == AddField("company_id", IntVal(1))

AddTitle == AddField("title", StrVal(<<"Manager">>))

AddPhone == AddField("phone", StrVal(<<"555">>))

AddMobile == AddField("mobile", StrVal(<<"556">>))

AddLinkedIn == AddField("linkedin_url", StrVal(<<"linkedin", "ann">>))

AddTwitter == AddField("twitter_handle", StrVal(<<"ann">>))

\* A word is appended to the title (the title is the word when there is none).
AddTitleTerm(word, terms) ==
    LET title == Get(contact_data, "title", None)
        old == IF Truthy(title) THEN title.s ELSE <<>>
    IN /\ ~ \E term \in terms : Contains(Lower(old), term)
       /\ Rescore(Put(contact_data, "title", StrVal(Append(old, word))))

AddExecutiveTerm == \E w \in {"CEO", "ahead"} : AddTitleTerm(w, ExecutiveTerms)

AddFounderTerm == \E w \in {"Founder", "coowner"} : AddTitleTerm(w, FounderTerms)

\* The address fields that are not set are set.
AddAddress ==
    /\ \E f \in AddressFields : ~Truthy(Get(contact_data, f, None))
    /\ Rescore([k \in DOMAIN contact_data \cup AddressFields |->
                   IF k \in AddressFields /\ ~Truthy(Get(contact_data, k, None))
                   THEN StrVal(<<"x">>) ELSE contact_data[k]])

\* A mapping without lead source is given one.
AddLeadSource ==
    /\ ~Truthy(Get(contact_data, "lead_source", None))
    /\ \E src \in {<<"web">>, <<"Referral">>, <<"cold", "call">>} :
          Rescore(Put(contact_data, "lead_source", StrVal(src)))

\* A mapping without a corporate email is given one.
AddCorporateEmail ==
    /\ EmailPoints(contact_data) = 0
    /\ Rescore(Put(contact_data, "email", Ann))

InitScore ==
    /\ RegInit
    /\ ConcIdle
    /\ PipeIdle
    /\ contact_data \in ScoreInputs
    /\ result = NotCalled
    /\ resultBefore = NotCalled

NextScore ==
    \/ Score
    \/ AddCompany
    \/ AddTitle
    \/ AddExecutiveTerm
    \/ AddFounderTerm
    \/ AddPhone
    \/ AddMobile
    \/ AddLinkedIn
    \/ AddTwitter
    \/ AddAddress
    \/ AddLeadSource
    \/ AddCorporateEmail

SpecScore == InitScore /\ [][NextScore]_vars

\* ------------------------------------------ SpecConc: requests in parallel
\* FastAPI runs the def handlers and the get_db generator on pool threads, so
\* two requests of a tenant interleave between their statements.  One step
\* is one access to what the threads share: the file system, _engines,
\* _sessions, the session and the database file.
ConcUser == "u1"

ConcInputs == IsoInputs

\* The UNIQUE constraint on contacts.email: no other row holds the email.
UniqueEmail_unconstrained(rows, id, d) == TRUE

UniqueEmail(rows, id, d) == \A x \in rows : x.id # id => x.d.email # d.email

RECURSIVE Ascending(_)
\* The members of a set of keys in ascending order.
Ascending(S) ==
    IF S = {} THEN <<>>
    ELSE LET m == CHOOSE x \in S : \A y \in S : x <= y
         IN <<m>> \o Ascending(S \ {m})

\* The statements a flush emits: the UPDATEs of the dirty objects that are not
\* marked deleted in key order, the INSERTs of the new objects in the order
\* of db.add, the DELETEs.
Statements(work) ==
    LET live == {x \in work.dirty : x.id \notin work.deleted}
        upd == Ascending(Ids(live))
        del == Ascending(work.deleted)
    IN [i \in DOMAIN upd |->
           [kind |-> "update", id |-> upd[i], by |-> "none",
            d |-> (CHOOSE x \in live : x.id = upd[i]).d]]
       \o [i \in DOMAIN work.new |->
              [kind |-> "insert", id |-> 0, by |-> work.new[i].by,
               d |-> work.new[i].d]]
       \o [i \in DOMAIN del |->
              [kind |-> "delete", id |-> del[i], by |-> "none", d |-> None]]

NoStatement == [kind |-> "none", id |-> 0, by |-> "none", d |-> None]

RECURSIVE Execute(_, _, _)
\* The statements run in one transaction.  An UPDATE that matches no row
\* (StaleDataError) and a statement that breaks the UNIQUE constraint
\* (IntegrityError) stop the flush at that statement; ids maps each thread to
\* the key its new object was given.
Execute(rows, stmts, ids) ==
    IF stmts = <<>>
    THEN [ok |-> TRUE, rows |-> rows, ids |-> ids, at |-> NoStatement,
          integrity |-> FALSE]
    ELSE LET s == Head(stmts)
         IN CASE s.kind = "update" ->
                   IF ById(rows, s.id) = {}
                   THEN [ok |-> FALSE, rows |-> rows, ids |-> ids, at |-> s,
                         integrity |-> FALSE]
                   ELSE IF ~UniqueEmail(rows, s.id, s.d)
                   THEN [ok |-> FALSE, rows |-> rows, ids |-> ids, at |-> s,
                         integrity |-> TRUE]
                   ELSE Execute((rows \ ById(rows, s.id))
                                  \cup {[id |-> s.id, d |-> s.d]},
                                Tail(stmts), ids)
              [] s.kind = "insert" ->
                   IF ~UniqueEmail(rows, 0, s.d)
                   THEN [ok |-> FALSE, rows |-> rows, ids |-> ids, at |-> s,
                         integrity |-> TRUE]
                   ELSE Execute(rows \cup {[id |-> NextId(rows), d |-> s.d]},
                                Tail(stmts),
                                [ids EXCEPT ![s.by] = NextId(rows)])
              [] OTHER ->
                   Execute(rows \ ById(rows, s.id), Tail(stmts), ids)

\* Session.flush() inside Session.commit()
Flush(rows, work) ==
    Execute(rows, Statements(work), [r \in Requests |-> 0])

\* One step of a thread: the registry and the files, the threads, the sessions.
Conc(st, rq, pd) ==
    /\ Assign(st)
    /\ req' = rq
    /\ pending' = pd
    /\ UNCHANGED snap
    /\ UNCHANGED scoreVars
    /\ UNCHANGED pipeVars

\* A step that changes the locals of the thread alone.
Local(r, locals) == Conc(St, [req EXCEPT ![r] = locals], pending)

At(r, pc) == req[r].pc = pc

Goto(r, pc) == [req[r] EXCEPT !.pc = pc]

\* The creates under way.
Creating == {q \in Requests : req[q].op = "create_contact" /\ req[q].pc # "done"}

\* A request arrives: validate_user_id accepts the header.
Receive(r, op, contact, contact_id) ==
    /\ At(r, "done")
    /\ validate_user_id(ConcUser)
    /\ Local(r, [Idle EXCEPT !.pc = "get_db", !.op = op, !.contact = contact,
                             !.contact_id = contact_id])

ReceiveCreate(r, contact) ==
    /\ NextId(fs[get_db_path(ConcUser)].rows["contacts"])
          + Cardinality(Creating) \in RowIds
    /\ Receive(r, "create_contact", contact, 0)

ReceiveUpdate(r, contact_id, contact) ==
    Receive(r, "update_contact", contact, contact_id)

ReceiveDelete(r, contact_id) == Receive(r, "delete_contact", None, contact_id)

\* get_db: if not os.path.exists(db_path)
GetDbExists(r) ==
    /\ At(r, "get_db")
    /\ Local(r, Goto(r, IF Exists(St, get_db_path(ConcUser))
                        THEN "get_session" ELSE "init_user_db"))

\* init_user_db: create_engine and create_all
InitUserDbCreate(r) ==
    /\ At(r, "init_user_db")
    /\ LET e == create_engine(St, get_db_path(ConcUser))
       IN Conc(create_all(e.st, e.val),
               [req EXCEPT ![r].engine = e.val, ![r].pc = "init_cache"],
               pending)

\* init_user_db: _engines[user_id] = engine
InitUserDbCache(r) ==
    /\ At(r, "init_cache")
    /\ Conc([St EXCEPT !.engines[ConcUser] = req[r].engine],
            [req EXCEPT ![r].pc = "get_session"], pending)

\* get_session: if user_id in _sessions
GetSessionLookup(r) ==
    /\ At(r, "get_session")
    /\ Local(r, IF _sessions[ConcUser] # NoSession
                THEN [req[r] EXCEPT !.db = _sessions[ConcUser],
                                    !.engine = NoEngine, !.pc = "handler"]
                ELSE Goto(r, "get_engine"))

\* get_engine: if user_id in _engines
GetEngineLookup(r) ==
    /\ At(r, "get_engine")
    /\ Local(r, IF _engines[ConcUser] # NoEngine
                THEN [req[r] EXCEPT !.engine = _engines[ConcUser],
                                    !.pc = "create_all"]
                ELSE Goto(r, "get_engine_new"))

\* get_engine: if not os.path.exists(db_path), and create_engine
GetEngineCreate(r) ==
    /\ At(r, "get_engine_new")
    /\ LET e == create_engine(St, get_db_path(ConcUser))
       IN Conc(e.st,
               [req EXCEPT ![r].engine = e.val,
                           ![r].pc = IF Exists(St, get_db_path(ConcUser))
                                     THEN "get_engine_cache" ELSE "create_all"],
               pending)

\* get_engine: _engines[user_id] = engine
GetEngineCache(r) ==
    /\ At(r, "get_engine_cache")
    /\ Conc([St EXCEPT !.engines[ConcUser] = req[r].engine],
            [req EXCEPT ![r].pc = "create_all"], pending)

\* get_session: Base.metadata.create_all(bind=engine)
GetSessionCreateAll(r) ==
    /\ At(r, "create_all")
    /\ Conc(create_all(St, req[r].engine),
            [req EXCEPT ![r].pc = "session_cache"], pending)

\* get_session: SessionLocal() and _sessions[user_id] = session
GetSessionCache(r) ==
    /\ At(r, "session_cache")
    /\ LET session == [id |-> nextHandle, engine |-> req[r].engine]
       IN Conc([St EXCEPT !.next = @ + 1, !.sessions[ConcUser] = session],
               [req EXCEPT ![r].db = session, ![r].engine = NoEngine,
                           ![r].pc = "handler"],
               pending)

\* The unit of work of the session a thread holds, and the rows it reads.
Work(r) == pending[req[r].db.id]

Rows(r) == Read(St, req[r].db, "contacts")

\* An exception leaves the handler: get_db will roll the session back.  The
\* locals of the handler are gone.
Fail(r, status, dup) ==
    [Idle EXCEPT !.pc = "rollback", !.db = req[r].db, !.status = status,
                 !.dup = dup]

\* The handler returns: the response is kept, the locals are gone.
Return(status) == [Idle EXCEPT !.status = status]

\* A query or a commit on a session whose transaction failed in a flush and
\* has not been rolled back raises PendingRollbackError.
Usable(r) == Work(r).active

\* create_contact: existing = db.query(Contact).filter(email == ...).first()
CreateQuery(r) ==
    /\ At(r, "handler")
    /\ req[r].op = "create_contact"
    /\ Local(r, IF ~Usable(r) THEN Fail(r, "error", FALSE)
                ELSE IF ByEmail(Rows(r), req[r].contact.email) # {}
                THEN Fail(r, "email_exists", TRUE)
                ELSE Goto(r, "add"))

\* create_contact: the lead score, Contact(**contact.dict()) and db.add
CreateAdd(r) ==
    /\ At(r, "add")
    /\ LET contact == req[r].contact
           score == calculate_lead_score(contact)
           stored == IF contact.lead_score.n = 0
                     THEN [contact EXCEPT !.lead_score = IntVal(score.val)]
                     ELSE contact
       IN IF contact.lead_score.n = 0 /\ ~score.ok
          THEN Local(r, Fail(r, "error", FALSE))
          ELSE Conc(St, [req EXCEPT ![r].pc = "commit"],
                    [pending EXCEPT ![req[r].db.id].new =
                        Append(@, [by |-> r, d |-> stored])])

\* update_contact: db_contact = db.query(Contact).filter(id == ...).first()
UpdateQuery(r) ==
    /\ At(r, "handler")
    /\ req[r].op = "update_contact"
    /\ Local(r, IF ~Usable(r) THEN Fail(r, "error", FALSE)
                ELSE IF ById(Rows(r), req[r].contact_id) = {}
                THEN Fail(r, "not_found", FALSE)
                ELSE [req[r] EXCEPT !.db_contact = req[r].contact_id,
                                    !.pc = "check_email"])

\* The attributes of a loaded object: what setattr left on it, else its row.
Loaded(r, id) ==
    {x.d : x \in ById(Work(r).dirty, id)}
        \cup (IF ById(Work(r).dirty, id) = {}
              THEN {x.d : x \in ById(Rows(r), id)} ELSE {})

\* update_contact: if contact.email != db_contact.email: existing = ...
\* (reading an attribute of an object whose row is gone raises
\* ObjectDeletedError)
UpdateCheckEmail(r) ==
    /\ At(r, "check_email")
    /\ LET db_contact == Loaded(r, req[r].db_contact)
       IN Local(r, IF db_contact = {} THEN Fail(r, "error", FALSE)
                   ELSE IF \E d \in db_contact : d.email = req[r].contact.email
                   THEN Goto(r, "setattr")
                   ELSE IF ~Usable(r) THEN Fail(r, "error", FALSE)
                   ELSE IF ByEmail(Rows(r), req[r].contact.email) # {}
                   THEN Fail(r, "email_exists", TRUE)
                   ELSE Goto(r, "setattr"))

\* update_contact: the setattr loop; an object whose row the session has
\* deleted is detached and marks nothing dirty.
UpdateSetattr(r) ==
    /\ At(r, "setattr")
    /\ LET id == req[r].db_contact
       IN Conc(St, [req EXCEPT ![r].pc = "commit"],
               IF ById(Rows(r), id) = {} THEN pending
               ELSE [pending EXCEPT ![req[r].db.id].dirty =
                        (@ \ ById(@, id)) \cup {[id |-> id, d |-> req[r].contact]}])

\* delete_contact: contact = db.query(Contact).filter(id == ...).first()
DeleteQuery(r) ==
    /\ At(r, "handler")
    /\ req[r].op = "delete_contact"
    /\ Local(r, IF ~Usable(r) THEN Fail(r, "error", FALSE)
                ELSE IF ById(Rows(r), req[r].contact_id) = {}
                THEN Fail(r, "not_found", FALSE)
                ELSE [req[r] EXCEPT !.db_contact = req[r].contact_id,
                                    !.pc = "delete"])

\* delete_contact: db.delete(contact); an object that is no longer persistent
\* raises InvalidRequestError.
DeleteMark(r) ==
    /\ At(r, "delete")
    /\ IF ById(Rows(r), req[r].db_contact) = {}
       THEN Local(r, Fail(r, "error", FALSE))
       ELSE Conc(St, [req EXCEPT ![r].pc = "commit"],
                 [pending EXCEPT ![req[r].db.id].deleted =
                     @ \cup {req[r].db_contact}])

\* The statement a flush stopped at is the thread's own.
Own(r, s) ==
    \/ s.kind = "insert" /\ s.by = r
    \/ /\ s.kind = "update"
       /\ req[r].op = "update_contact"
       /\ s.id = req[r].db_contact
       /\ s.d = req[r].contact

\* db.commit(): everything the session holds is flushed in one transaction.
\* A flush that fails rolls the transaction back, discards what the session
\* held and leaves the session unusable until Session.rollback().
Commit(r) ==
    /\ At(r, "commit")
    /\ LET f == Flush(Rows(r), Work(r))
           path == req[r].db.engine.path
           sid == req[r].db.id
       IN IF ~Usable(r) THEN Local(r, Fail(r, "error", FALSE))
          ELSE IF f.ok
          THEN Conc([St EXCEPT !.fs[path].rows["contacts"] = f.rows],
                    [q \in Requests |->
                        IF q = r
                        THEN IF req[r].op = "delete_contact" THEN Return("ok")
                             ELSE [req[r] EXCEPT
                                     !.db_contact = IF f.ids[r] # 0
                                                    THEN f.ids[r] ELSE @,
                                     !.pc = "refresh"]
                        ELSE IF f.ids[q] # 0
                        THEN [req[q] EXCEPT !.db_contact = f.ids[q]]
                        ELSE req[q]],
                    [pending EXCEPT ![sid] = NoWork])
          ELSE Conc(St,
                    [req EXCEPT ![r] = Fail(r, "error", f.integrity /\ Own(r, f.at))],
                    [pending EXCEPT ![sid] = [NoWork EXCEPT !.active = FALSE]])

\* db.refresh(db_contact): InvalidRequestError for an object that is not
\* persistent in the session or whose row is gone.
Refresh(r) ==
    /\ At(r, "refresh")
    /\ Local(r, IF ~Usable(r) THEN Fail(r, "error", FALSE)
                ELSE IF ById(Rows(r), req[r].db_contact) = {}
                THEN Fail(r, "error", FALSE)
                ELSE Goto(r, "get_contact"))

\* return get_contact(...): the row is read again and ContactResponse is built
\* from it
GetContact(r) ==
    /\ At(r, "get_contact")
    /\ Local(r, IF ~Usable(r) THEN Fail(r, "error", FALSE)
                ELSE IF ById(Rows(r), req[r].db_contact) = {}
                THEN Fail(r, "not_found", FALSE)
                ELSE IF ~from_orm(ContactResponseRequired, ContactColumns)
                THEN Fail(r, "error", FALSE)
                ELSE Return(IF req[r].op = "create_contact"
                            THEN "created" ELSE "ok"))

\* get_db: except Exception: session.rollback()
Rollback(r) ==
    /\ At(r, "rollback")
    /\ Conc(St, [req EXCEPT ![r].pc = "done", ![r].db = NoSession],
            [pending EXCEPT ![req[r].db.id] = NoWork])

NextConc ==
    \/ \E r \in Requests, c \in ConcInputs : ReceiveCreate(r, c)
    \/ \E r \in Requests, id \in RowIds, c \in ConcInputs : ReceiveUpdate(r, id, c)
    \/ \E r \in Requests, id \in RowIds : ReceiveDelete(r, id)
    \/ \E r \in Requests : GetDbExists(r)
    \/ \E r \in Requests : InitUserDbCreate(r)
    \/ \E r \in Requests : InitUserDbCache(r)
    \/ \E r \in Requests : GetSessionLookup(r)
    \/ \E r \in Requests : GetEngineLookup(r)
    \/ \E r \in Requests : GetEngineCreate(r)
    \/ \E r \in Requests : GetEngineCache(r)
    \/ \E r \in Requests : GetSessionCreateAll(r)
    \/ \E r \in Requests : GetSessionCache(r)
    \/ \E r \in Requests : CreateQuery(r)
    \/ \E r \in Requests : CreateAdd(r)
    \/ \E r \in Requests : UpdateQuery(r)
    \/ \E r \in Requests : UpdateCheckEmail(r)
    \/ \E r \in Requests : UpdateSetattr(r)
    \/ \E r \in Requests : DeleteQuery(r)
    \/ \E r \in Requests : DeleteMark(r)
    \/ \E r \in Requests : Commit(r)
    \/ \E r \in Requests : Refresh(r)
    \/ \E r \in Requests : GetContact(r)
    \/ \E r \in Requests : Rollback(r)

SpecConc == Init /\ [][NextConc]_vars

\* -------------------------------------------- SpecPipeline: deal aggregates
Open == StrVal(<<"open">>)

Won == StrVal(<<"won">>)

Lost == StrVal(<<"lost">>)

\* The deal mappings: a status, and a value and a probability that are absent,
\* None or a number.
PipelineDeals ==
    {[status |-> status] @@ value @@ probability :
       status \in {Open, Won, Lost},
       value \in {<<>>, [value |-> None], [value |-> IntVal(100)],
                  [value |-> IntVal(40)]},
       probability \in {<<>>, [probability |-> None],
                        [probability |-> IntVal(50)],
                        [probability |-> IntVal(10)]}}

\* calculate_deal_weighted_value: value * (probability / 100), in hundredths;
\* TypeError when an operand is None.
calculate_deal_weighted_value(value, probability) ==
    IF value.t = "int" /\ probability.t = "int"
    THEN Returned(value.n * probability.n)
    ELSE Raised

RECURSIVE Sum(_)
\* sum(...) over the results of a generator: TypeError at the first term that
\* is no number or whose evaluation raised.
Sum(terms) ==
    IF terms = <<>> THEN Returned(0)
    ELSE LET rest == Sum(Tail(terms))
         IN IF Head(terms).ok /\ rest.ok
            THEN Returned(Head(terms).val + rest.val)
            ELSE Raised

\* One term of a sum: a number, or the TypeError adding None gives.
Term(v) == IF v.t = "int" THEN Returned(v.n) ELSE Raised

\* [d for d in deals if d.get('status') == status]
WithStatus(ds, status) ==
    SelectSeq(ds, LAMBDA d : Get(d, "status", None) = status)

\* calculate_pipeline_metrics that takes every deal that is not won as open.
calculate_pipeline_metrics_lost_as_open(ds) ==
    LET open_deals == SelectSeq(ds, LAMBDA d : Get(d, "status", None) # Won)
        total_value == Sum([i \in DOMAIN open_deals |->
                              Term(Get(open_deals[i], "value", IntVal(0)))])
        weighted_value ==
            Sum([i \in DOMAIN open_deals |->
                   calculate_deal_weighted_value(
                       Get(open_deals[i], "value", IntVal(0)),
                       Get(open_deals[i], "probability", IntVal(0)))])
        won_deals == WithStatus(ds, Won)
        total_revenue == Sum([i \in DOMAIN won_deals |->
                                Term(Get(won_deals[i], "value", IntVal(0)))])
    IN IF total_value.ok /\ weighted_value.ok /\ total_revenue.ok
       THEN Metrics(total_value.val, weighted_value.val, Len(open_deals),
                    total_revenue.val, Len(won_deals))
       ELSE MetricsRaised

\* calculate_pipeline_metrics
calculate_pipeline_metrics(ds) ==
    LET open_deals == WithStatus(ds, Open)
        total_value == Sum([i \in DOMAIN open_deals |->
                              Term(Get(open_deals[i], "value", IntVal(0)))])
        weighted_value ==
            Sum([i \in DOMAIN open_deals |->
                   calculate_deal_weighted_value(
                       Get(open_deals[i], "value", IntVal(0)),
                       Get(open_deals[i], "probability", IntVal(0)))])
        won_deals == WithStatus(ds, Won)
        total_revenue == Sum([i \in DOMAIN won_deals |->
                                Term(Get(won_deals[i], "value", IntVal(0)))])
    IN IF total_value.ok /\ weighted_value.ok /\ total_revenue.ok
       THEN Metrics(total_value.val, weighted_value.val, Len(open_deals),
                    total_revenue.val, Len(won_deals))
       ELSE MetricsRaised

\* The call on the list as it stands.
Measure ==
    /\ metrics = NotMeasured
    /\ metrics' = calculate_pipeline_metrics(deals)
    /\ UNCHANGED deals
    /\ UNCHANGED <<regVars, scoreVars, concVars>>

\* A deal joins the list and the aggregates are taken again.
AddDeal(d) ==
    /\ metrics # NotMeasured
    /\ Len(deals) < MaxDeals
    /\ deals' = Append(deals, d)
    /\ metrics' = calculate_pipeline_metrics(deals')
    /\ UNCHANGED <<regVars, scoreVars, concVars>>

NextPipeline ==
    \/ Measure
    \/ \E d \in PipelineDeals : AddDeal(d)

SpecPipeline == Init /\ [][NextPipeline]_vars

\* ------------------------------------------------------------------ claims
\* The two ways a caller resolves a tenant: get_session, and get_db.
Resolved(st, u) == {get_session(st, u), [k \in {"st", "val"} |-> get_db(st, u)[k]]}

\* Every row a session reads, table by table.
ReadAll(st, session) == [tb \in Tables |-> Read(st, session, tb)]

\* An engine or session object made by a call that started in the current
\* state.
Fresh(id) == id >= nextHandle

\* C1 (state part): a resolve leaves the session it returns in the cache, bound
\* to the tenant's file crm_T.db, which exists; a resolve that finds a cached
\* session returns that session and changes nothing: no engine, no session and
\* no file is created.
C1_Resolve ==
    \A u \in Tenants : \A r \in Resolved(St, u) :
        /\ r.val # NoSession
        /\ r.st.sessions[u] = r.val
        /\ r.val.engine.path = get_db_path(u)
        /\ Exists(r.st, get_db_path(u))
        /\ _sessions[u] # NoSession => r.val = _sessions[u] /\ r.st = St
        /\ \A r2 \in Resolved(r.st, u) : r2.val = r.val /\ r2.st = r.st

\* C1 (step part): a cached session leaves the cache or is replaced only by
\* delete_user_db, restore_user_db or close_all.
C1_Kept ==
    \A u \in Tenants :
        (_sessions[u] # NoSession /\ _sessions'[u] # _sessions[u])
            => \/ DeleteUserDb(u)
               \/ \E p \in BackupPaths : RestoreUserDb(u, p)
               \/ CloseAll

\* C1: with no destroy, restore or close_all in between, two sequential
\* resolves of a tenant return the same cached session, bound to crm_T.db, and
\* the second creates no engine, no session and no file.
C1_SameSession == [](C1_Resolve) /\ [][C1_Kept]_vars

\* C1 witness: a tenant was resolved, a request resolved it again and wrote a
\* row through the cached session, and a further resolve returns that session.
C1_Witness ==
    /\ _sessions["u1"] # NoSession
    /\ fs[get_db_path("u1")].rows["contacts"] # {}
    /\ get_db(St, "u1").val = _sessions["u1"]
    /\ get_db(St, "u1").st = St

\* The state after delete_user_db(u) followed by a resolve of u.
Reprovisioned(u) == Resolved(delete_user_db(St, u).st, u)

\* C3: after delete_user_db(T) followed by a resolve of T the store holds no
\* row of any table, whatever it held before, and the session returned and its
\* engine are new objects: not the ones cached before the destroy, nor any
\* closed or disposed one.
C3_FreshEmptyStore ==
    \A u \in Tenants : \A r \in Reprovisioned(u) :
        /\ r.st.fs[get_db_path(u)] = EmptyDb
        /\ \A tb \in Tables : Read(r.st, r.val, tb) = {}
        /\ Fresh(r.val.id) /\ Fresh(r.val.engine.id)
        /\ r.val # _sessions[u] /\ r.val.engine # _engines[u]
        /\ r.val.id \notin r.st.released /\ r.val.engine.id \notin r.st.released

\* C3 witness: a store that holds rows and is cached is destroyed and resolved.
C3_Witness ==
    /\ _sessions["u1"] # NoSession /\ _engines["u1"] # NoEngine
    /\ fs[get_db_path("u1")].rows["contacts"] # {}
    /\ fs[get_db_path("u1")].rows["deals"] # {}
    /\ \E r \in Reprovisioned("u1") :
          r.st.fs[get_db_path("u1")] = EmptyDb /\ Fresh(r.val.id)

\* C4: delete_user_db(T) returns true exactly when the store file of T existed
\* at the call; afterwards T has no cached session, no cached engine and no
\* store file.
C4_DeleteResult ==
    \A u \in Tenants :
        LET r == delete_user_db(St, u)
        IN /\ r.val = Exists(St, get_db_path(u))
           /\ r.st.sessions[u] = NoSession
           /\ r.st.engines[u] = NoEngine
           /\ ~Exists(r.st, get_db_path(u))

\* C4 witness: a destroy returned true and left nothing of a tenant that had a
\* file and cached handles; destroyed again it returns false.
C4_Witness ==
    /\ released # {}
    /\ ~Exists(St, get_db_path("u1"))
    /\ _sessions["u1"] = NoSession /\ _engines["u1"] = NoEngine
    /\ delete_user_db(St, "u1").val = FALSE

\* The state after a successful restore_user_db(u, p) followed by a resolve.
Restored(u, p) == Resolved(restore_user_db(St, u, p).st, u)

\* C5: restore_user_db(T, source) leaves T without cached session and engine,
\* and the first resolve after it returns a session and an engine made after
\* the copy, never a cached one, that read the restored rows.
C5_RestoreEvicts ==
    \A u \in Tenants : \A p \in BackupPaths :
        Exists(St, p) =>
            LET rs == restore_user_db(St, u, p)
            IN /\ rs.ok
               /\ rs.st.sessions[u] = NoSession /\ rs.st.engines[u] = NoEngine
               /\ rs.st.fs[get_db_path(u)] = fs[p]
               /\ \A r \in Restored(u, p) :
                     /\ Fresh(r.val.id) /\ Fresh(r.val.engine.id)
                     /\ r.val # _sessions[u] /\ r.val.engine # _engines[u]
                     /\ r.val.id \notin r.st.released
                     /\ r.val.engine.id \notin r.st.released
                     /\ ReadAll(r.st, r.val) = fs[p].rows

\* C5 witness: a tenant with cached handles whose store differs from the backup
\* is restored.
C5_Witness ==
    /\ Exists(St, <<"backups", "b1">>)
    /\ _sessions["u1"] # NoSession /\ _engines["u1"] # NoEngine
    /\ fs[get_db_path("u1")].rows # fs[<<"backups", "b1">>].rows
    /\ restore_user_db(St, "u1", <<"backups", "b1">>).st.sessions["u1"] = NoSession

\* C6: once backup_user_db(T, path) has copied the store in state S, whatever
\* creates, updates and deletes follow, restore_user_db(T, path) leaves a store
\* that the next resolve reads as exactly the rows of S, table by table.
C6_RoundTrip ==
    \A u \in Tenants : \A p \in BackupPaths :
        snap[p].u = u =>
            /\ restore_user_db(St, u, p).ok
            /\ \A r \in Restored(u, p) : ReadAll(r.st, r.val) = snap[p].rows

\* C6 witness: the store was backed up with a contact in it and has changed
\* since; the restore brings the backed-up rows back.
C6_Witness ==
    LET p == <<"backups", "b1">>
    IN /\ snap[p].u = "u1"
       /\ snap[p].rows["contacts"] # {}
       /\ fs[get_db_path("u1")].rows["contacts"] # snap[p].rows["contacts"]
       /\ fs[get_db_path("u1")].rows["contacts"] # {}
       /\ \E r \in Restored("u1", p) : ReadAll(r.st, r.val) = snap[p].rows

\* The states a call made for tenant a can leave.
CallsFor(a) ==
    {get_session(St, a).st, read_only(St, a).st, delete_user_db(St, a).st}
    \cup {backup_user_db(St, a, p).st : p \in BackupPaths}
    \cup {restore_user_db(St, a, p).st : p \in BackupPaths}
    \cup {create_contact(St, a, c).st : c \in ContactInputs}
    \cup {update_contact(St, a, id, c).st : id \in RowIds, c \in ContactInputs}
    \cup {delete_row(St, a, tb, id).st : tb \in Tables, id \in RowIds}
    \cup {create_row(St, a, "companies", d).st : d \in CompanyInputs}
    \cup {create_row(St, a, "deals", d).st : d \in DealInputs}
    \cup {create_row(St, a, "activities", d).st : d \in ActivityInputs}

\* C9: a call made for tenant A leaves the store file, the rows and the cached
\* session and engine of every other tenant B as they were, and a create_contact
\* for B is rejected as a duplicate only when B's own store holds the email.
C9_Isolation ==
    \A a \in Tenants : \A b \in Tenants \ {a} :
        /\ \A st \in CallsFor(a) :
              /\ st.fs[get_db_path(b)] = fs[get_db_path(b)]
              /\ st.sessions[b] = _sessions[b]
              /\ st.engines[b] = _engines[b]
        /\ \A c \in ContactInputs :
              create_contact(St, b, c).status = "email_exists"
                  => ByEmail(fs[get_db_path(b)].rows["contacts"], c.email) # {}

\* C9 witness: u1 holds a contact with an email, u2 is provisioned and cached
\* and holds another contact; creating the email of u1 in u2 succeeds.
C9_Witness ==
    /\ ByEmail(fs[get_db_path("u1")].rows["contacts"], Ann) # {}
    /\ _sessions["u2"] # NoSession
    /\ fs[get_db_path("u2")].rows["contacts"] # {}
    /\ ByEmail(fs[get_db_path("u2")].rows["contacts"], Ann) = {}
    /\ ByEmail(Contacts(create_contact(St, "u2",
                    [BlankContact(Ann) EXCEPT !.lead_source = StrVal(<<"web">>)]).st,
                "u2"), Ann) # {}

\* C10: for every contact attribute mapping calculate_lead_score returns a
\* value in 0..100, and the value it returns once one more signal is added is
\* not below the value it returned before.
C10_RangeAndMonotone ==
    /\ result # NotCalled => result.ok /\ result.val \in 0 .. 100
    /\ resultBefore # NotCalled =>
          resultBefore.ok /\ result.ok /\ resultBefore.val <= result.val

\* C10 on the mappings whose lead_source is absent or a str: the range and the
\* monotonicity hold there.
C10_WhenSourceIsStr ==
    Get(contact_data, "lead_source", StrVal(<<>>)).t = "str" =>
        /\ result # NotCalled => result.ok /\ result.val \in 0 .. 100
        /\ (resultBefore # NotCalled /\ resultBefore.ok) => resultBefore.val <= result.val

\* C2: under every interleaving of concurrent resolves of a tenant, one
\* engine and one session are created for it at most, and every request that
\* has resolved holds the session that is in the cache.
C2_IdempotentResolve ==
    /\ nextHandle <= 3
    /\ \A r \in Requests :
          req[r].db # NoSession => req[r].db = _sessions[ConcUser]

\* C7: in every reachable state, under every interleaving of create_contact,
\* update_contact and delete_contact requests, no two contacts rows of a
\* tenant's store hold the same email.
C7_UniqueEmail ==
    \A u \in Tenants :
        \A x, y \in fs[get_db_path(u)].rows["contacts"] :
            x.d.email = y.d.email => x = y

\* C7 case: two requests raced, the store holds two contacts and the flush of
\* one request was stopped by the constraint.
C7_Witness ==
    /\ Cardinality(fs[get_db_path(ConcUser)].rows["contacts"]) = 2
    /\ \E r \in Requests : req[r].dup /\ req[r].status = "error"

\* C8: a create_contact or update_contact that runs into an email another
\* contact of the tenant holds ends with the "Email already exists" error,
\* also for the request that loses a race.
C8_ConflictError ==
    \A r \in Requests : req[r].dup => req[r].status = "email_exists"

\* C8, second half: the step in which a request runs into a held email leaves
\* the files as they are.
C8_StoreUnchanged ==
    [][(\E r \in Requests : req'[r].dup /\ ~req[r].dup) => fs' = fs]_vars

\* C11: calculate_lead_score returns an integer for every attribute mapping,
\* also when optional attributes are absent or None, and returns 0 for a
\* mapping in which no attribute is set.
C11_Total ==
    result # NotCalled =>
        /\ result.ok
        /\ (\A k \in DOMAIN contact_data : ~Truthy(contact_data[k]))
              => result.val = 0

\* C12 (calls): create_contact with a nonzero lead_score and a free email
\* stores the request as it is, without calling calculate_lead_score; with
\* lead_score 0 what it stores carries calculate_lead_score of the request; a
\* create that is refused stores nothing; a row that update_contact changes
\* holds the request, its lead_score included.
C12_Stored ==
    \A u \in SpecTenants, c \in ContactInputs :
        LET o == create_contact(St, u, c)
            before == Contacts(St, u)
            after == Contacts(o.st, u)
        IN /\ (c.lead_score.n # 0 /\ ByEmail(before, c.email) = {})
                 => after = before \cup {[id |-> NextId(before), d |-> c]}
           /\ (c.lead_score.n = 0 /\ after # before)
                 => /\ calculate_lead_score(c).ok
                    /\ after = before \cup
                          {[id |-> NextId(before),
                            d |-> [c EXCEPT !.lead_score =
                                     IntVal(calculate_lead_score(c).val)]]}
           /\ o.status \in {"invalid_user_id", "email_exists"} => after = before
           /\ \A id \in RowIds :
                 LET p == update_contact(St, u, id, c)
                 IN \A y \in Contacts(p.st, u) :
                        y \in Contacts(St, u) \/ y = [id |-> id, d |-> c]

\* C12 (steps): the lead_score of a stored contact changes only in an
\* update_contact that carries the new score or in a restore_user_db.
C12_Kept ==
    \A u \in SpecTenants :
        \A x \in Contacts(St, u) :
            \A y \in fs'[get_db_path(u)].rows["contacts"] :
                (x.id = y.id /\ x.d.lead_score # y.d.lead_score)
                    => \/ \E c \in ContactInputs :
                             /\ UpdateContact(u, x.id, c)
                             /\ c.lead_score = y.d.lead_score
                       \/ \E p \in BackupPaths : RestoreUserDb(u, p)

\* C12: create_contact stores a nonzero lead_score of the request unchanged
\* and the calculated score exactly when the request's lead_score is 0, and no
\* operation replaces a stored score with a calculated one.
C12_SuppliedScoreKept == [](C12_Stored) /\ [][C12_Kept]_vars

\* C12 case: the store holds a contact created with the explicit score 70 and
\* a contact created without score, which carries the calculated 15.
C12_Witness ==
    \E x, y \in Contacts(St, "u1") :
        /\ x.d.email = Bob /\ x.d.lead_score = IntVal(70)
        /\ y.d.email = Ann /\ y.d.lead_source = StrVal(<<"web">>)
        /\ y.d.lead_score = IntVal(15)

RECURSIVE AfterAt(_)
\* The part of an address after its '@' (nothing when there is no '@').
AfterAt(s) ==
    IF s = <<>> THEN <<>>
    ELSE IF Head(s) = "@" THEN Tail(s)
    ELSE AfterAt(Tail(s))

\* The email of a mapping is present and the domain after its '@' is not one
\* of the free-mail providers.
CorporateDomain(d) ==
    LET email == Get(d, "email", None)
    IN /\ email.t = "str"
       /\ email.s # <<>>
       /\ AfterAt(Lower(email.s)) # <<>>
       /\ Head(AfterAt(Lower(email.s))) \notin FreeMailTerms

\* C13: calculate_lead_score gives the 10 corporate-email points exactly when
\* an email is present and its domain is none of gmail, yahoo, hotmail,
\* outlook; the local part does not count.
C13_DomainDecides ==
    (result # NotCalled /\ result.ok) =>
        EmailPoints(contact_data) = IF CorporateDomain(contact_data) THEN 10 ELSE 0

\* Every deal of the list carries a number as value and as probability.
Valued(ds) ==
    \A i \in DOMAIN ds :
        /\ "value" \in DOMAIN ds[i] /\ ds[i].value.t = "int"
        /\ "probability" \in DOMAIN ds[i] /\ ds[i].probability.t = "int"

RECURSIVE Total(_, _)
\* The sum of the numbers at the positions of a list that are in the set.
Total(numbers, positions) ==
    IF positions = {} THEN 0
    ELSE LET i == CHOOSE i \in positions : TRUE
         IN numbers[i] + Total(numbers, positions \ {i})

\* The values of the deals, and their values times their probabilities.
Values(ds) == [i \in DOMAIN ds |-> ds[i].value.n]

Weighted(ds) == [i \in DOMAIN ds |-> ds[i].value.n * ds[i].probability.n]

Positions(ds, status) == {i \in DOMAIN ds : ds[i].status = status}

\* C14: for a list of deals that carry their value and probability,
\* calculate_pipeline_metrics gives total_value = the sum of value over the
\* open deals, weighted_value = the sum of value*probability/100 over the
\* open deals (here in hundredths), open_count = their number, total_revenue
\* = the sum of value over the won deals, won_count = their number; lost deals
\* add to none of them and the empty list gives zeros.
C14_PipelineSums ==
    (metrics # NotMeasured /\ Valued(deals)) =>
        /\ metrics.ok
        /\ metrics.total_value
              = Total(Values(deals), Positions(deals, Open))
        /\ metrics.weighted_value
              = Total(Weighted(deals), Positions(deals, Open))
        /\ metrics.open_count = Cardinality(Positions(deals, Open))
        /\ metrics.total_revenue
              = Total(Values(deals), Positions(deals, Won))
        /\ metrics.won_count = Cardinality(Positions(deals, Won))
        /\ metrics = calculate_pipeline_metrics(
                         SelectSeq(deals, LAMBDA d : d.status # Lost))
        /\ deals = <<>> => metrics = Metrics(0, 0, 0, 0, 0)

\* C14 case: an open deal of 100 at 50 percent and a lost deal of 40 were
\* aggregated: 100 open, 50.00 weighted, one open deal, nothing won.
C14_Witness ==
    /\ deals = <<[status |-> Open, value |-> IntVal(100), probability |-> IntVal(50)],
                 [status |-> Lost, value |-> IntVal(40), probability |-> IntVal(10)]>>
    /\ metrics = Metrics(100, 5000, 1, 0, 0)

\* A deal with 0 in the place of a value or probability that is absent or None.
ZeroFilled(d) ==
    [status |-> d.status,
     value |-> IF Get(d, "value", None).t = "int" THEN d.value ELSE IntVal(0),
     probability |-> IF Get(d, "probability", None).t = "int"
                     THEN d.probability ELSE IntVal(0)]

\* C15: calculate_pipeline_metrics never fails on a deal whose value or
\* probability is absent or None: it answers as for the list in which the
\* missing quantities are 0.
C15_MissingAsZero ==
    metrics # NotMeasured =>
        /\ metrics.ok
        /\ metrics = calculate_pipeline_metrics(
                         [i \in DOMAIN deals |-> ZeroFilled(deals[i])])

\* C15 on the lists in which no value and no probability is None: a quantity
\* that is absent counts as 0.
C15_AbsentAsZero ==
    (/\ metrics # NotMeasured
     /\ \A i \in DOMAIN deals :
           /\ Get(deals[i], "value", IntVal(0)) # None
           /\ Get(deals[i], "probability", IntVal(0)) # None)
        => /\ metrics.ok
           /\ metrics = calculate_pipeline_metrics(
                            [i \in DOMAIN deals |-> ZeroFilled(deals[i])])

\* A reference that names no row of a table: no reference at all, or the id of
\* a row that does not exist.
Dangling(st, session, ref, tb) ==
    ~Truthy(ref) \/ ById(Read(st, session, tb), ref.n) = {}

\* C16: every read of a stored contact or deal succeeds, and a company_id or
\* contact_id that is absent or names no existing row comes back as a null
\* company_name / contact_name: in list_contacts, get_contact,
\* get_contact_with_company and list_deals.
C16_ReadsSucceed ==
    \A u \in SpecTenants :
        LET db == get_db(St, u)
            all == list_contacts(db.st, db.val)
            listed == list_deals(db.st, db.val)
        IN /\ all.status = "ok"
           /\ listed.status = "ok"
           /\ \A x \in Read(db.st, db.val, "contacts") :
                 /\ get_contact(db.st, db.val, x.id).status = "ok"
                 /\ get_contact_with_company(db.st, db.val, x.id).status = "ok"
                 /\ Dangling(db.st, db.val, x.d.company_id, "companies")
                       => /\ get_contact(db.st, db.val, x.id).company_name = None
                          /\ get_contact_with_company(db.st, db.val, x.id).company_name = None
                          /\ \E i \in all.items :
                                i.id = x.id /\ i.company_name = None
           /\ \A d \in Read(db.st, db.val, "deals") :
                 \E i \in listed.items :
                    /\ i.id = d.id
                    /\ Dangling(db.st, db.val, d.d.company_id, "companies")
                          => i.company_name = None
                    /\ Dangling(db.st, db.val, d.d.contact_id, "contacts")
                          => i.contact_name = None

\* C16, the two read paths that build no ContactResponse: list_deals and
\* get_contact_with_company succeed on every stored row and give None for a
\* reference that names no row.
C16_PlainReadsSucceed ==
    \A u \in SpecTenants :
        LET db == get_db(St, u)
            listed == list_deals(db.st, db.val)
        IN /\ listed.status = "ok"
           /\ \A x \in Read(db.st, db.val, "contacts") :
                 LET a == get_contact_with_company(db.st, db.val, x.id)
                 IN /\ a.status = "ok"
                    /\ Dangling(db.st, db.val, x.d.company_id, "companies")
                          => a.company_name = None
           /\ \A d \in Read(db.st, db.val, "deals") :
                 \E i \in listed.items :
                    /\ i.id = d.id
                    /\ Dangling(db.st, db.val, d.d.company_id, "companies")
                          => i.company_name = None
                    /\ Dangling(db.st, db.val, d.d.contact_id, "contacts")
                          => i.contact_name = None

\* C17: every deal the system returns carries weighted_value = value *
\* probability / 100 of the stored deal (in hundredths: value * probability):
\* each item of list_deals and the response of create_deal.
C17_WeightedEverywhere ==
    \A u \in SpecTenants :
        LET db == get_db(St, u)
        IN /\ \A d \in Read(db.st, db.val, "deals") :
                 \E i \in list_deals(db.st, db.val).items :
                    i.id = d.id /\ i.weighted_value = d.d.value * d.d.probability
           /\ \A deal \in DealInputs :
                 LET created == create_deal(db.st, db.val, deal)
                 IN /\ created.status = "created"
                    /\ \A i \in created.items :
                          i.weighted_value = deal.value * deal.probability

\* C17, list_deals alone: every stored deal is listed with weighted_value =
\* value * probability / 100 of the row.
C17_ListedWeighted ==
    \A u \in SpecTenants :
        LET db == get_db(St, u)
        IN \A d \in Read(db.st, db.val, "deals") :
              \E i \in list_deals(db.st, db.val).items :
                 i.id = d.id /\ i.weighted_value = d.d.value * d.d.probability

\* What a company's representation has to carry in a state: the number of
\* contacts and of deals that refer to it and the value of its won deals.
Derived(st, session, company_id) ==
    [id |-> company_id,
     contact_count |->
         Cardinality({c \in Read(st, session, "contacts") :
                         c.d.company_id = IntVal(company_id)}),
     deal_count |->
         Cardinality({d \in Read(st, session, "deals") :
                         d.d.company_id = IntVal(company_id)}),
     total_revenue |->
         SumValue({d \in Read(st, session, "deals") :
                      d.d.company_id = IntVal(company_id) /\ d.d.status = "won"})]

\* C18: after any sequence of creates and deletes, list_companies, get_company
\* and get_company_with_counts return every company with contact_count,
\* deal_count and total_revenue equal to the number of contacts and deals that
\* refer to it now and the summed value of its won deals.
C18_CountsEverywhere ==
    \A u \in SpecTenants :
        LET db == get_db(St, u)
        IN \A company \in Read(db.st, db.val, "companies") :
              LET derived == Derived(db.st, db.val, company.id)
              IN /\ derived \in list_companies(db.st, db.val)
                 /\ get_company(db.st, db.val, company.id) = {derived}
                 /\ \A r \in get_company_with_counts(db.st, db.val, company.id) :
                       /\ "total_revenue" \in DOMAIN r
                       /\ r = derived

\* C18, list_companies alone: every company is listed with its current counts
\* and the value of its won deals; get_company_with_counts gives the two counts.
C18_ListedCounts ==
    \A u \in SpecTenants :
        LET db == get_db(St, u)
        IN \A company \in Read(db.st, db.val, "companies") :
              LET derived == Derived(db.st, db.val, company.id)
              IN /\ derived \in list_companies(db.st, db.val)
                 /\ \A r \in list_companies(db.st, db.val) :
                       r.id = company.id => r = derived
                 /\ \E r \in get_company_with_counts(db.st, db.val, company.id) :
                       /\ r.contact_count = derived.contact_count
                       /\ r.deal_count = derived.deal_count

\* A store file with the full schema.
Provisioned(st, u) ==
    /\ Exists(st, get_db_path(u))
    /\ st.fs[get_db_path(u)].schema

\* The outcomes of the operations a first request for a tenant can be: the
\* creates, the list, the database info.
FirstOperations(st, u) ==
    {create_contact(st, u, c) : c \in ContactInputs}
    \cup {create_row(st, u, "companies", d) : d \in CompanyInputs}
    \cup {create_row(st, u, "deals", d) : d \in DealInputs}
    \cup {create_row(st, u, "activities", d) : d \in ActivityInputs}
    \cup {read_only(st, u), get_database_info(st, u)}

\* C19: for a tenant without store file, every first operation succeeds and
\* leaves a provisioned store with the full schema; none ends in a not-found
\* or another error.
C19_FirstOperationProvisions ==
    \A u \in SpecTenants :
        ~Exists(St, get_db_path(u))
            => \A o \in FirstOperations(St, u) :
                  /\ o.status \in {"ok", "created"}
                  /\ Provisioned(o.st, u)

\* C19, the operations that resolve the store through get_db: whatever the
\* handler answers, a tenant without store file has a provisioned store with
\* the full schema and a cached session afterwards.
C19_ResolveProvisions ==
    \A u \in SpecTenants :
        ~Exists(St, get_db_path(u))
            => \A o \in FirstOperations(St, u) \ {get_database_info(St, u)} :
                  /\ Provisioned(o.st, u)
                  /\ o.st.sessions[u] # NoSession
                  /\ o.status \notin {"not_found", "invalid_user_id"}

\* C19, database info: without store file get_database_info answers not found
\* and provisions nothing.
C19_InfoNotFound ==
    \A u \in SpecTenants :
        ~Exists(St, get_db_path(u))
            => /\ get_database_info(St, u).status = "not_found"
               /\ get_database_info(St, u).st = St

\* The outcomes of the requests that can carry a user id, applied to a state.
Requested(st, u) ==
    FirstOperations(st, u)
    \cup {update_contact(st, u, id, c) : id \in RowIds, c \in ContactInputs}
    \cup {delete_row(st, u, tb, id) : tb \in {"contacts", "companies", "deals"},
                                      id \in RowIds}
    \cup {upload_database(st, u, file) : file \in UploadInputs}

\* C20: a request whose user id validate_user_id rejects is answered with the
\* validation error and changes nothing, and in every reachable state an id
\* that validation rejects has no store file, no cached engine and no cached
\* session.
C20_InvalidRejected ==
    \A u \in UserIds \ Tenants :
        /\ ~Exists(St, get_db_path(u))
        /\ _engines[u] = NoEngine
        /\ _sessions[u] = NoSession
        /\ \A o \in Requested(St, u) :
              o.status = "invalid_user_id" /\ o.st = St

\* C20 case: while a tenant's store holds a contact and its session is cached,
\* a create and an upload under the rejected id are answered with the
\* validation error, and the same create under the tenant's id stores a row.
C20_Witness ==
    /\ Contacts(St, "u1") # {}
    /\ _sessions["u1"] # NoSession
    /\ ~validate_user_id("bad")
    /\ \E c \in ContactInputs :
          /\ create_contact(St, "bad", c).status = "invalid_user_id"
          /\ Contacts(create_contact(St, "u1", c).st, "u1") # Contacts(St, "u1")
    /\ \E file \in UploadInputs :
          /\ file.db_suffix
          /\ upload_database(St, "bad", file).status = "invalid_user_id"
          /\ upload_database(St, "u1", file).status = "ok"

\* C21 (calls): delete_company removes the company row with the id and
\* nothing else: the rows of every other table and of every other file are
\* the same rows with the same values, company_id included.
C21_Removes ==
    \A u \in SpecUsers, id \in RowIds :
        LET o == delete_row(St, u, "companies", id)
        IN \A p \in Paths, tb \in Tables :
              o.st.fs[p].rows[tb] =
                 IF p = get_db_path(u) /\ tb = "companies"
                 THEN {r \in St.fs[p].rows[tb] : r.id # id}
                 ELSE St.fs[p].rows[tb]

\* C21 (steps): a step of delete_company that removes a company leaves the
\* contacts, deals, activities and notes of every file as they were.
C21_Frame ==
    \A u \in SpecUsers, id \in RowIds :
        (/\ ById(fs[get_db_path(u)].rows["companies"], id) # {}
         /\ ById(fs'[get_db_path(u)].rows["companies"], id) = {}
         /\ DeleteCompany(u, id))
            => \A p \in Paths, tb \in Tables \ {"companies"} :
                  fs'[p].rows[tb] = fs[p].rows[tb]

\* C21: delete_company removes exactly the company row; contacts, deals,
\* activities and notes, those referring to the deleted id included, stay as
\* they are.
C21_NoCascade == [](C21_Removes) /\ [][C21_Frame]_vars

\* C21 case: company 1 exists and a contact or a deal refers to it; deleting
\* it succeeds and the referring row still carries company_id 1.
C21_Witness ==
    /\ ById(fs[get_db_path("u1")].rows["companies"], 1) # {}
    /\ \E tb \in {"contacts", "deals"} :
          \E r \in fs[get_db_path("u1")].rows[tb] :
             /\ r.d.company_id = IntVal(1)
             /\ LET o == delete_row(St, "u1", "companies", 1)
                IN /\ o.status = "ok"
                   /\ o.st.fs[get_db_path("u1")].rows["companies"] = {}
                   /\ r \in o.st.fs[get_db_path("u1")].rows[tb]

\* The change a request has made in its session and not yet committed: the
\* object it added, the row it set the attributes of, the row it marked
\* deleted.
Uncommitted(q, work) ==
    /\ req[q].pc = "commit"
    /\ \/ /\ req[q].op = "create_contact"
          /\ \E i \in DOMAIN work.new : work.new[i].by = q
       \/ /\ req[q].op = "update_contact"
          /\ [id |-> req[q].db_contact, d |-> req[q].contact] \in work.dirty
       \/ /\ req[q].op = "delete_contact"
          /\ req[q].db_contact \in work.deleted

\* The contacts table once the change of one request alone is committed.
OwnEffect(r, rows) ==
    CASE req[r].op = "create_contact" ->
            rows \cup {[id |-> NextId(rows),
                        d |-> IF req[r].contact.lead_score.n = 0
                              THEN [req[r].contact EXCEPT !.lead_score =
                                      IntVal(calculate_lead_score(req[r].contact).val)]
                              ELSE req[r].contact]}
      [] req[r].op = "update_contact" ->
            IF ById(rows, req[r].db_contact) = {} THEN rows
            ELSE {x \in rows : x.id # req[r].db_contact}
                 \cup {[id |-> req[r].db_contact, d |-> req[r].contact]}
      [] req[r].op = "delete_contact" ->
            {x \in rows : x.id # req[r].db_contact}
      [] OTHER -> rows

\* C22 (rollback): the rollback of a failed request leaves the uncommitted
\* change of every other request in the session.
C22_RollbackOwn ==
    \A r \in Requests :
        Rollback(r)
            => \A q \in Requests \ {r} :
                  (req[q].db = req[r].db /\ Uncommitted(q, pending[req[r].db.id]))
                      => \E i \in DOMAIN pending'[req[r].db.id].new :
                            pending'[req[r].db.id].new[i].by = q
                         \/ [id |-> req[q].db_contact, d |-> req[q].contact]
                               \in pending'[req[r].db.id].dirty
                         \/ req[q].db_contact \in pending'[req[r].db.id].deleted

\* C22 (commit): a commit that succeeds changes the contacts table by the
\* change of the committing request and by nothing else.
C22_CommitOwn ==
    \A r \in Requests :
        (Commit(r) /\ req'[r].pc # "rollback")
            => fs'[req[r].db.engine.path].rows["contacts"] =
                  OwnEffect(r, fs[req[r].db.engine.path].rows["contacts"])

\* C22: two requests of a tenant on the shared session do not interfere: a
\* rollback discards only the failing request's uncommitted change and a
\* commit persists only the committing request's change, in every
\* interleaving.
C22_NoInterference == [][C22_RollbackOwn /\ C22_CommitOwn]_vars

\* C22, rollback alone
C22_RollbackKeepsOthers == [][C22_RollbackOwn]_vars

\* C22, commit alone
C22_CommitPersistsOwn == [][C22_CommitOwn]_vars

\* The company names the reads give for the contacts and deals of a store
\* that refer to a company id.
NamesFor(st, session, id) ==
    {get_contact_with_company(st, session, x.id).company_name :
        x \in OfCompany(st, session, "contacts", id)}
    \cup {i.company_name :
            i \in {j \in list_deals(st, session).items :
                     \E x \in OfCompany(st, session, "deals", id) : x.id = j.id}}

\* C23: once delete_company has removed a company, the contacts and deals
\* that refer to its id read company_name None also after a company is
\* created: the new company is not given the id of the deleted one.
C23_NoIdReuse ==
    \A u \in SpecTenants, id \in RowIds, d \in CompanyInputs :
        LET deleted == delete_row(St, u, "companies", id)
            created == create_row(deleted.st, u, "companies", d)
        IN deleted.status = "ok"
              => /\ ById(Read(created.st, created.val, "companies"), id) = {}
                 /\ NamesFor(created.st, created.val, id) \subseteq {None}

\* C23, the read right after the delete: the contacts and deals that refer to
\* the deleted id read company_name None.
C23_NullAfterDelete ==
    \A u \in SpecTenants, id \in RowIds :
        LET deleted == delete_row(St, u, "companies", id)
        IN deleted.status = "ok"
              => NamesFor(deleted.st, deleted.val, id) \subseteq {None}

\* C23, a deleted id below the largest id in use is not given out again.
C23_NoReuseBelowLargest ==
    \A u \in SpecTenants, id \in RowIds, d \in CompanyInputs :
        LET deleted == delete_row(St, u, "companies", id)
            created == create_row(deleted.st, u, "companies", d)
        IN (/\ deleted.status = "ok"
            /\ \E c \in Read(deleted.st, deleted.val, "companies") : c.id > id)
              => ById(Read(created.st, created.val, "companies"), id) = {}

\* C24: a tenant with a cached session has a cached engine, the session is
\* bound to it, and delete_user_db, restore_user_db and close_all dispose the
\* engine the cached session is bound to.
C24_SessionOnCachedEngine ==
    \A u \in Tenants :
        _sessions[u] # NoSession
            => /\ _engines[u] # NoEngine
               /\ _sessions[u].engine = _engines[u]
               /\ _sessions[u].engine.id \in delete_user_db(St, u).st.released
               /\ _sessions[u].engine.id \in close_all(St).released
               /\ \A p \in BackupPaths :
                     restore_user_db(St, u, p).ok
                         => _sessions[u].engine.id
                               \in restore_user_db(St, u, p).st.released

\* C24, the resolve of a request: a session that get_db creates is bound to
\* the engine cached for the tenant, whether the file existed or not.
C24_ResolveBindsCached ==
    \A u \in Tenants :
        _sessions[u] = NoSession
            => LET db == get_db(St, u)
               IN /\ db.st.engines[u] # NoEngine
                  /\ db.val.engine = db.st.engines[u]
                  /\ db.st.sessions[u] = db.val

\* C24, get_session for a tenant without file and without cached engine: the
\* session is cached, its engine is not, and delete_user_db does not dispose
\* that engine.
C24_SessionWithoutFile ==
    \A u \in Tenants :
        (/\ _sessions[u] = NoSession
         /\ _engines[u] = NoEngine
         /\ ~Exists(St, get_db_path(u)))
            => LET s == get_session(St, u)
               IN /\ s.st.sessions[u] = s.val
                  /\ s.st.engines[u] = NoEngine
                  /\ Exists(s.st, get_db_path(u))
                  /\ s.val.engine.id \notin delete_user_db(s.st, u).st.released

\* The outcomes of a resolve that follows an upload that replaced the store
\* file of a tenant.
Uploaded(u, file) == Resolved(upload_database(St, u, file).st, u)

\* C25: after upload_database has replaced a tenant's store file, the next
\* resolve returns a session and an engine made after the replacement, never
\* one that was cached before it.
C25_UploadEvicts ==
    \A u \in Tenants : \A file \in UploadInputs :
        upload_database(St, u, file).status = "ok"
            => \A r \in Uploaded(u, file) :
                  /\ Fresh(r.val.id) /\ Fresh(r.val.engine.id)
                  /\ r.val # _sessions[u] /\ r.val.engine # _engines[u]

\* C25, what upload_database does: the file holds the uploaded content, the
\* cached session and engine of the tenant stay where they are, and a session
\* cached before the upload is the one the next resolve returns.
C25_UploadKeepsCache ==
    \A u \in Tenants : \A file \in UploadInputs :
        LET up == upload_database(St, u, file)
        IN up.status = "ok"
              => /\ up.st.fs[get_db_path(u)] = file.content
                 /\ up.st.sessions = _sessions /\ up.st.engines = _engines
                 /\ up.st.released = released
                 /\ _sessions[u] # NoSession
                       => \A r \in Uploaded(u, file) : r.val = _sessions[u]

\* C25, a tenant without cached handles: the resolve after the upload returns
\* handles made after it.
C25_UploadWithoutCache ==
    \A u \in Tenants : \A file \in UploadInputs :
        (/\ upload_database(St, u, file).status = "ok"
         /\ _sessions[u] = NoSession /\ _engines[u] = NoEngine)
            => \A r \in Uploaded(u, file) :
                  Fresh(r.val.id) /\ Fresh(r.val.engine.id)

====
